---- MODULE Spec2Model ----
(***************************************************************************)
(* State-machine model of the portal demo pages (camera, screenshot) and   *)
(* of the wallpaper option types of carlosmn/ashpd.                        *)
(*                                                                         *)
(* Scheduling: one GLib main context.  An action activation runs its       *)
(* closure to completion; a future given to spawn_local is polled later,   *)
(* and every `.await` on the bus is a suspension point at which any other  *)
(* handler may run.                                                        *)
(***************************************************************************)
EXTENDS Integers, Sequences, FiniteSets, TLC

\* Number of start_stream futures that may be spawned in one behaviour.
MaxTasks == 2

TaskIds == 1..MaxTasks

\* Number of pick_color / screenshot futures that may be spawned.
MaxShots == 2

ShotIds == 1..MaxShots

\* Number of WallpaperOptionsBuilder setter calls before build().
MaxSetterCalls == 3

\* Number of times the outcome of a resolved request is awaited again.
MaxAwaits == 2

\* The paintable holds no stream (CameraPaintable::default()).
NoFd == 0

VARIABLES
    page,        \* CameraPage: action enablement, paintable, revealer, label
    task,        \* the start_stream futures spawned by camera.start
    open_fds,    \* stream fds returned by the portal and not closed yet
    error_log,   \* what was logged through tracing::error!: <<page, future>>
    last,        \* the camera handler that ran last (history)
    shot,        \* ScreenshotPage: switches, photo, revealer, color widget
    shot_task,   \* the pick_color / screenshot futures spawned by the actions
    crashed,     \* a future panicked
    builder,     \* the WallpaperOptionsBuilder being filled
    setter_log,  \* the setter calls made on it, in order (history)
    options,     \* the WallpaperOptions build() returned
    wire,        \* the body of the SetWallpaperURI call as written to the bus
    wp_pc,       \* where the wallpaper client is
    decoded,     \* what deserializing the options of the body gave
    request,     \* the client's side of the request handle (RequestProxy)
    broker       \* the portal's side of the request

camera_vars == <<page, task, open_fds, last>>

shot_vars == <<shot, shot_task, crashed>>

wp_vars == <<builder, setter_log, options, wire, wp_pc, decoded, request, broker>>

vars == <<page, task, open_fds, error_log, last, shot, shot_task, crashed,
          builder, setter_log, options, wire, wp_pc, decoded, request, broker>>

-----------------------------------------------------------------------------
(* camera.rs                                                               *)

\* The awaits of stream(), in program order.
ChainPcs == {"session", "proxy", "is_camera_present", "access_camera",
             "open_pipe_wire_remote"}

\* The three portal calls of stream().
BrokerPcs == {"is_camera_present", "access_camera", "open_pipe_wire_remote"}

\* What an awaited call may resolve to: "ok" is Ok(()) / Ok(true) / Ok(fd),
\* "no" is Ok(false) of is_camera_present, "err" is Err(_).
Replies(pc) == IF pc = "is_camera_present" THEN {"ok", "no", "err"} ELSE {"ok", "err"}

NewTask == [pc |-> "unspawned", stopped |-> FALSE, calls |-> <<>>, result |-> "pending"]

\* The fd open_pipe_wire_remote returns to future t (a fresh descriptor per call).
FdOf(t) == t

\* CameraPage after instance_init and constructed.
NewCameraPage ==
    [camera_start     |-> TRUE,
     camera_stop      |-> FALSE,
     pipewire_fd      |-> NoFd,
     reveal_child     |-> FALSE,
     camera_available |-> ""]

\* The part of the process a handler of the page acts on: the page, the open
\* descriptors, and (history) whether stop_stream ran in the handler.
World(p, fds) == [page |-> p, open_fds |-> fds, stopped |-> FALSE]

\* CameraPaintable::set_pipewire_fd
set_pipewire_fd(w, fd) == [w EXCEPT !.page.pipewire_fd = fd]

\* CameraPaintable::close_pipeline: releases the stream held, if any; closing
\* twice is a no-op.
close_pipeline(w) ==
    [w EXCEPT !.page.pipewire_fd = NoFd, !.open_fds = @ \ {w.page.pipewire_fd}]

\* start_stream that leaves camera.start enabled.
start_stream_begin_keeps_start(p) == [p EXCEPT !.camera_stop = TRUE]

\* start_stream that does not enable camera.stop.
start_stream_begin_keeps_stop(p) == [p EXCEPT !.camera_start = FALSE]

\* start_stream up to its first await: lines 76-77.
start_stream_begin(p) == [p EXCEPT !.camera_stop = TRUE, !.camera_start = FALSE]

\* stop_stream that toggles the revealer instead of hiding it.
stop_stream_toggles_revealer(w) ==
    [close_pipeline([w EXCEPT !.page.camera_stop = FALSE, !.page.camera_start = TRUE])
        EXCEPT !.page.reveal_child = ~w.page.reveal_child, !.stopped = TRUE]

\* stop_stream that does not close the pipeline.
stop_stream_keeps_pipeline(w) ==
    [w EXCEPT !.page.camera_stop = FALSE, !.page.camera_start = TRUE,
              !.page.reveal_child = FALSE, !.stopped = TRUE]

\* stop_stream: lines 94-101.
stop_stream(w) ==
    [close_pipeline([w EXCEPT !.page.camera_stop = FALSE, !.page.camera_start = TRUE])
        EXCEPT !.page.reveal_child = FALSE, !.stopped = TRUE]

\* stream() with the `?` after access_camera() dropped.
stream_ignores_access(pc, r) ==
    IF r = "err" /\ pc # "access_camera" THEN [pc |-> "done", result |-> "Err"]
    ELSE CASE pc = "session"               -> [pc |-> "proxy", result |-> "pending"]
           [] pc = "proxy"                 -> [pc |-> "is_camera_present", result |-> "pending"]
           [] pc = "is_camera_present"     ->
                 IF r = "ok" THEN [pc |-> "access_camera", result |-> "pending"]
                             ELSE [pc |-> "done", result |-> "None"]
           [] pc = "access_camera"         -> [pc |-> "open_pipe_wire_remote", result |-> "pending"]
           [] pc = "open_pipe_wire_remote" -> [pc |-> "done", result |-> "Some"]

\* stream(): lines 104-114.  Given the await the future is suspended at and
\* what it resolved to, the next await, or "done" with the value returned.
stream(pc, r) ==
    IF r = "err" THEN [pc |-> "done", result |-> "Err"]
    ELSE CASE pc = "session"               -> [pc |-> "proxy", result |-> "pending"]
           [] pc = "proxy"                 -> [pc |-> "is_camera_present", result |-> "pending"]
           [] pc = "is_camera_present"     ->
                 IF r = "ok" THEN [pc |-> "access_camera", result |-> "pending"]
                             ELSE [pc |-> "done", result |-> "None"]
           [] pc = "access_camera"         -> [pc |-> "open_pipe_wire_remote", result |-> "pending"]
           [] pc = "open_pipe_wire_remote" -> [pc |-> "done", result |-> "Some"]

\* The match of start_stream with an Err arm that does not call stop_stream.
start_stream_match_err_only_logs(w, result, fd) ==
    CASE result = "Some" ->
           [set_pipewire_fd(w, fd) EXCEPT !.page.reveal_child = TRUE,
                                          !.page.camera_available = "Yes"]
      [] result = "None" -> [w EXCEPT !.page.camera_available = "No"]
      [] result = "Err"  -> w

\* The match of start_stream on what stream() returned: lines 78-91.
start_stream_match(w, result, fd) ==
    CASE result = "Some" ->
           [set_pipewire_fd(w, fd) EXCEPT !.page.reveal_child = TRUE,
                                          !.page.camera_available = "Yes"]
      [] result = "None" -> [w EXCEPT !.page.camera_available = "No"]
      [] result = "Err"  -> stop_stream(w)

\* Idle as after construction: start enabled, stop disabled, no stream held,
\* revealer hidden.
Idle(p) ==
    /\ p.camera_start
    /\ ~p.camera_stop
    /\ p.pipewire_fd = NoFd
    /\ ~p.reveal_child

\* Future t has run the first statements of start_stream.
Entered(tk) == tk.pc \notin {"unspawned", "spawned"}

\* History: stop_stream ran after these futures entered start_stream.
MarkStopped(ts) ==
    [u \in TaskIds |-> IF Entered(ts[u]) THEN [ts[u] EXCEPT !.stopped = TRUE] ELSE ts[u]]

Event(op, t, ran) == [op |-> op, task |-> t, ran |-> ran, idle |-> Idle(page)]

InitCamera ==
    /\ page = NewCameraPage
    /\ task = [t \in TaskIds |-> NewTask]
    /\ open_fds = {}
    /\ last = [op |-> "constructed", task |-> 0, ran |-> TRUE, idle |-> TRUE]

\* Activation of camera.start (class_init, lines 37-42): a disabled action
\* does not run its closure; an enabled one spawns start_stream.
ActivateCameraStart ==
    /\ IF page.camera_start
       THEN \E t \in TaskIds :
               /\ task[t].pc = "unspawned"
               /\ \A u \in 1..(t - 1) : task[u].pc # "unspawned"
               /\ task' = [task EXCEPT ![t].pc = "spawned"]
               /\ last' = Event("camera.start", t, TRUE)
       ELSE /\ task' = task
            /\ last' = Event("camera.start", 0, FALSE)
    /\ UNCHANGED <<page, open_fds, error_log, shot_vars, wp_vars>>

\* Activation of camera.stop (class_init, lines 43-45).
ActivateCameraStop ==
    /\ IF page.camera_stop
       THEN LET w == stop_stream(World(page, open_fds))
            IN  /\ page' = w.page
                /\ open_fds' = w.open_fds
                /\ task' = IF w.stopped THEN MarkStopped(task) ELSE task
                /\ last' = Event("camera.stop", 0, TRUE)
       ELSE /\ UNCHANGED <<page, open_fds, task>>
            /\ last' = Event("camera.stop", 0, FALSE)
    /\ UNCHANGED <<error_log, shot_vars, wp_vars>>

\* First poll of a spawned start_stream: lines 74-78, up to the first await
\* inside stream().
StartStreamBegin(t) ==
    /\ task[t].pc = "spawned"
    /\ page' = start_stream_begin(page)
    /\ task' = [task EXCEPT ![t].pc = "session"]
    /\ last' = Event("start_stream", t, TRUE)
    /\ UNCHANGED <<open_fds, error_log, shot_vars, wp_vars>>

\* The await future t is suspended at resolves to r; the future runs to its
\* next await, or stream() returns and the match of start_stream runs
\* (the Err arm logs first).
StreamReply(t, r) ==
    /\ task[t].pc \in ChainPcs
    /\ r \in Replies(task[t].pc)
    /\ LET nx  == stream(task[t].pc, r)
           tk  == [task EXCEPT ![t] = [pc      |-> nx.pc,
                                       stopped |-> task[t].stopped,
                                       calls   |-> Append(task[t].calls, <<task[t].pc, r>>),
                                       result  |-> nx.result]]
           got == IF task[t].pc = "open_pipe_wire_remote" /\ r = "ok"
                  THEN open_fds \cup {FdOf(t)} ELSE open_fds
           w   == IF nx.pc = "done"
                  THEN start_stream_match(World(page, got), nx.result, FdOf(t))
                  ELSE World(page, got)
       IN  /\ page' = w.page
           /\ open_fds' = w.open_fds
           /\ error_log' = IF nx.result = "Err"
                           THEN error_log \cup {<<"camera", t>>} ELSE error_log
           /\ task' = IF w.stopped THEN MarkStopped(tk) ELSE tk
           /\ last' = Event("reply", t, TRUE)
           /\ UNCHANGED <<shot_vars, wp_vars>>

-----------------------------------------------------------------------------
(* screenshot.rs                                                           *)

\* What the portal may answer a screenshot request with.
Uris == {"file:///tmp/shot.png", "file:///tmp/other.png"}

\* What the portal may answer a pick_color request with.
Colors == {"rgba(255,0,0)"}

\* The ways a request ends without a payload: the response says the user
\* cancelled, the response carries another code, the bus call fails, the
\* reply does not decode.
Failures == {"Cancelled", "Other", "Transport", "Decode"}

\* What WindowIdentifier::from_native resolves to: a handle, or the empty
\* identifier.
Identifiers == {"x11:1", ""}

NewShotTask ==
    [kind |-> "none", pc |-> "unspawned", identifier |-> "", interactive |-> FALSE,
     modal |-> FALSE, result |-> "pending", payload |-> ""]

\* ScreenshotPage after instance_init and constructed, rooted in a window.
NewScreenshotPage ==
    [interactive_switch |-> FALSE,
     modal_switch       |-> FALSE,
     screenshot_photo   |-> "",
     revealer_visible   |-> FALSE,
     reveal_child       |-> FALSE,
     color_widget       |-> "",
     native             |-> TRUE]

\* The `if let` of screenshot applied to every result of take.
screenshot_done_ignores_result(sp, result, uri) ==
    [sp EXCEPT !.screenshot_photo = uri, !.revealer_visible = TRUE, !.reveal_child = TRUE]

\* screenshot after take resolved: lines 103-110.
screenshot_done(sp, result, uri) ==
    IF result = "Ok"
    THEN [sp EXCEPT !.screenshot_photo = uri, !.revealer_visible = TRUE, !.reveal_child = TRUE]
    ELSE sp

\* pick_color after screenshot::pick_color resolved: lines 89-91.
pick_color_done(sp, result, color) ==
    IF result = "Ok" THEN [sp EXCEPT !.color_widget = color] ELSE sp

\* screenshot reading the switches: lines 100-101.
screenshot_args(sp) == [interactive |-> sp.interactive_switch, modal |-> sp.modal_switch]

InitShot ==
    /\ shot = NewScreenshotPage
    /\ shot_task = [t \in ShotIds |-> NewShotTask]
    /\ crashed = FALSE

\* Activation of screenshot.pick-color or screenshot.screenshot (class_init,
\* lines 39-58): spawns the future; neither action is ever disabled.
ActivateShot(kind) ==
    /\ ~crashed
    /\ \E t \in ShotIds :
          /\ shot_task[t].pc = "unspawned"
          /\ \A u \in 1..(t - 1) : shot_task[u].pc # "unspawned"
          /\ shot_task' = [shot_task EXCEPT ![t].pc = "spawned", ![t].kind = kind]
    /\ UNCHANGED <<shot, crashed, error_log, camera_vars, wp_vars>>

\* The user flips a switch of the page.
ToggleSwitch ==
    /\ ~crashed
    /\ \/ shot' = [shot EXCEPT !.interactive_switch = ~@]
       \/ shot' = [shot EXCEPT !.modal_switch = ~@]
    /\ UNCHANGED <<shot_task, crashed, error_log, camera_vars, wp_vars>>

\* The page leaves its window, or is put back into one.
Reparent ==
    /\ ~crashed
    /\ shot' = [shot EXCEPT !.native = ~@]
    /\ UNCHANGED <<shot_task, crashed, error_log, camera_vars, wp_vars>>

\* First poll of a spawned pick_color / screenshot: self.native().unwrap()
\* (lines 86, 97) panics without a root, else from_native is awaited.
ShotBegin(t) ==
    /\ ~crashed
    /\ shot_task[t].pc = "spawned"
    /\ IF shot.native
       THEN /\ shot_task' = [shot_task EXCEPT ![t].pc = "from_native"]
            /\ crashed' = FALSE
       ELSE /\ shot_task' = [shot_task EXCEPT ![t].pc = "panicked"]
            /\ crashed' = TRUE
    /\ UNCHANGED <<shot, error_log, camera_vars, wp_vars>>

\* from_native resolved to id: pick_color issues its request (line 89);
\* screenshot reads the switches and issues take (lines 100-103).
ShotIdentified(t, id) ==
    /\ ~crashed
    /\ shot_task[t].pc = "from_native"
    /\ shot_task' =
          IF shot_task[t].kind = "screenshot"
          THEN [shot_task EXCEPT ![t].pc = "take",
                                 ![t].identifier = id,
                                 ![t].interactive = screenshot_args(shot).interactive,
                                 ![t].modal = screenshot_args(shot).modal]
          ELSE [shot_task EXCEPT ![t].pc = "pick_color", ![t].identifier = id]
    /\ UNCHANGED <<shot, crashed, error_log, camera_vars, wp_vars>>

\* The request of future t resolved: result is "Ok" with a payload, or one
\* of Failures.  The future ends and its locals are dropped.
ShotResolved(t, result, payload) ==
    /\ ~crashed
    /\ shot_task[t].pc \in {"take", "pick_color"}
    /\ \/ result = "Ok" /\ payload \in (IF shot_task[t].pc = "take" THEN Uris ELSE Colors)
       \/ result \in Failures /\ payload = ""
    /\ shot' = IF shot_task[t].pc = "take"
               THEN screenshot_done(shot, result, payload)
               ELSE pick_color_done(shot, result, payload)
    /\ shot_task' = [shot_task EXCEPT ![t] = [NewShotTask EXCEPT !.kind = shot_task[t].kind,
                                                               !.pc = "done",
                                                               !.result = result,
                                                               !.payload = payload]]
    /\ UNCHANGED <<crashed, error_log, camera_vars, wp_vars>>

NextShot ==
    \/ ActivateShot("pick_color")
    \/ ActivateShot("screenshot")
    \/ ToggleSwitch
    \/ Reparent
    \/ \E t \in ShotIds : ShotBegin(t)
    \/ \E t \in ShotIds : \E id \in Identifiers : ShotIdentified(t, id)
    \/ \E t \in ShotIds : \E r \in {"Ok"} \cup Failures : \E x \in Uris \cup Colors \cup {""} :
          ShotResolved(t, r, x)

-----------------------------------------------------------------------------
(* wallpaper.rs                                                            *)

\* The variants of SetOn, by discriminant.
Lockscreen == 0

Background == 1

Both == 2

SetOn == {Lockscreen, Background, Both}

\* Option<T>: None is the empty set, Some(x) is {x}.
None == {}

Some(x) == {x}

Unwrap(o) == CHOOSE x \in o : TRUE

\* The URIs the client sets as wallpaper.
WallpaperUris == {"file:///adwaita-night.jpg"}

\* to_string as strum derives it under serialize_all = "lowercase".
to_string_lowercase(v) ==
    CASE v = Lockscreen -> "lockscreen"
      [] v = Background -> "background"
      [] v = Both       -> "both"

\* SetOn::to_string as derived by strum's ToString (line 40): no strum
\* attribute renames the variants, so each prints as its identifier.
to_string(v) ==
    CASE v = Lockscreen -> "Lockscreen"
      [] v = Background -> "Background"
      [] v = Both       -> "Both"

\* impl Serialize for SetOn: lines 58-65.
serialize_SetOn(v) == to_string(v)

\* WallpaperOptionsBuilder::default()
NewBuilder == [show_preview |-> None, set_on |-> None]

\* WallpaperOptionsBuilder::show_preview: lines 98-101.
show_preview(b, v) == [b EXCEPT !.show_preview = Some(v)]

\* WallpaperOptionsBuilder::set_on: lines 103-106.
set_on(b, v) == [b EXCEPT !.set_on = Some(v)]

\* build() that turns an unset show_preview into Some(false).
build_defaults_preview(b) ==
    [set_on |-> b.set_on,
     show_preview |-> IF b.show_preview = None THEN Some(FALSE) ELSE b.show_preview]

\* WallpaperOptionsBuilder::build: lines 108-113.
build(b) == [set_on |-> b.set_on, show_preview |-> b.show_preview]

\* A dictionary without entries.
EmptyDict == [k \in {} |-> ""]

\* SerializeDict of WallpaperOptions (lines 67-77): an entry, under its
\* renamed key, for every field that is Some.
serialize_WallpaperOptions(o) ==
    [k \in (IF o.show_preview # None THEN {"show-preview"} ELSE {})
           \cup (IF o.set_on # None THEN {"set-on"} ELSE {}) |->
        IF k = "show-preview" THEN Unwrap(o.show_preview)
                              ELSE serialize_SetOn(Unwrap(o.set_on))]

\* Deserialize as serde derives it for SetOn (lines 40-41): a variant is
\* named by its identifier; the container attribute rename = "lowercase"
\* renames the type only.  Any other tag is an unknown variant (None here).
deserialize_SetOn(s) ==
    CASE s = "Lockscreen" -> Some(Lockscreen)
      [] s = "Background" -> Some(Background)
      [] s = "Both"       -> Some(Both)
      [] OTHER            -> None

\* DeserializeDict of WallpaperOptions (lines 67-77): a field is Some when
\* its key is present, None when it is absent; an entry that does not
\* decode fails the whole value.
deserialize_WallpaperOptions(d) ==
    LET so == IF "set-on" \in DOMAIN d THEN deserialize_SetOn(d["set-on"]) ELSE None
    IN  IF "set-on" \in DOMAIN d /\ so = None
        THEN [done |-> TRUE, ok |-> FALSE, value |-> build(NewBuilder)]
        ELSE [done  |-> TRUE,
              ok    |-> TRUE,
              value |-> [set_on       |-> so,
                         show_preview |-> IF "show-preview" \in DOMAIN d
                                          THEN Some(d["show-preview"]) ELSE None]]

\* What a request resolves to.
Outcomes == {"Success", "Cancelled", "Other"}

\* The client's side of a request before the call that creates it.
NewRequest ==
    [pc            |-> "none",
     subscriptions |-> 0,
     state         |-> "Pending",
     cached        |-> "none",
     fired         |-> 0,
     awaits        |-> <<>>]

\* RequestProxy::on_response: subscribes the callback to the Response signal
\* of the handle.
on_response(rq) == [rq EXCEPT !.pc = "listening", !.subscriptions = @ + 1]

\* The Response signal reaches the client: a subscribed callback fires and
\* the handle is resolved with the outcome; without a subscription the
\* signal is dropped.
deliver(rq, o) ==
    IF rq.pc = "listening" /\ rq.state = "Pending"
    THEN [rq EXCEPT !.state = "Resolved", !.cached = o, !.fired = @ + 1]
    ELSE rq

\* Awaiting again that subscribes again.
await_outcome_resubscribes(rq) ==
    IF rq.state = "Resolved"
    THEN [rq EXCEPT !.awaits = Append(@, rq.cached), !.subscriptions = @ + 1]
    ELSE rq

\* Awaiting the outcome of a handle again: a resolved handle answers from
\* its cache.
await_outcome(rq) ==
    IF rq.state = "Resolved" THEN [rq EXCEPT !.awaits = Append(@, rq.cached)] ELSE rq

InitWallpaper ==
    /\ request = NewRequest
    /\ broker = [request |-> "none", emitted |-> "none"]
    /\ decoded = [done |-> FALSE, ok |-> FALSE, value |-> build(NewBuilder)]
    /\ builder = NewBuilder
    /\ setter_log = <<>>
    /\ options = build(NewBuilder)
    /\ wire = [member |-> "", uri |-> "", options |-> EmptyDict]
    /\ wp_pc = "building"

\* A call of WallpaperOptionsBuilder::show_preview.
BuilderShowPreview(v) ==
    /\ wp_pc = "building"
    /\ Len(setter_log) < MaxSetterCalls
    /\ builder' = show_preview(builder, v)
    /\ setter_log' = Append(setter_log, <<"show_preview", v>>)
    /\ UNCHANGED <<options, wire, wp_pc, decoded, request, broker, error_log, camera_vars,
                   shot_vars>>

\* A call of WallpaperOptionsBuilder::set_on.
BuilderSetOn(v) ==
    /\ wp_pc = "building"
    /\ Len(setter_log) < MaxSetterCalls
    /\ builder' = set_on(builder, v)
    /\ setter_log' = Append(setter_log, <<"set_on", v>>)
    /\ UNCHANGED <<options, wire, wp_pc, decoded, request, broker, error_log, camera_vars,
                   shot_vars>>

\* The call of build().
BuilderBuild ==
    /\ wp_pc = "building"
    /\ options' = build(builder)
    /\ wp_pc' = "built"
    /\ UNCHANGED <<builder, setter_log, wire, decoded, request, broker, error_log,
                   camera_vars, shot_vars>>

\* WallpaperProxy::set_wallpaper_uri (lines 154-160): the options are
\* serialized into the body of the SetWallpaperURI call; the portal creates
\* the request and the call returns its handle.
SetWallpaperUri(uri) ==
    /\ wp_pc = "built"
    /\ wire' = [member  |-> "SetWallpaperURI",
                uri     |-> uri,
                options |-> serialize_WallpaperOptions(options)]
    /\ wp_pc' = "called"
    /\ request' = [NewRequest EXCEPT !.pc = "returned"]
    /\ broker' = [request |-> "live", emitted |-> "none"]
    /\ UNCHANGED <<builder, setter_log, options, decoded, error_log, camera_vars, shot_vars>>

\* The options of the body are deserialized back into WallpaperOptions.
DecodeBody ==
    /\ wp_pc = "called"
    /\ ~decoded.done
    /\ decoded' = deserialize_WallpaperOptions(wire.options)
    /\ UNCHANGED <<builder, setter_log, options, wire, wp_pc, request, broker, error_log,
                   camera_vars, shot_vars>>

\* RequestProxy::new on the handle returned (line 24).
NewRequestProxy ==
    /\ request.pc = "returned"
    /\ request' = [request EXCEPT !.pc = "proxied"]
    /\ UNCHANGED <<builder, setter_log, options, wire, wp_pc, decoded, broker, error_log,
                   camera_vars, shot_vars>>

\* request.on_response(callback) (lines 25-27).
OnResponse ==
    /\ request.pc = "proxied"
    /\ request' = on_response(request)
    /\ UNCHANGED <<builder, setter_log, options, wire, wp_pc, decoded, broker, error_log,
                   camera_vars, shot_vars>>

\* The portal emits the one outcome of the request.
BrokerRespond(o) ==
    /\ broker.request = "live"
    /\ broker' = [request |-> "closed", emitted |-> o]
    /\ request' = deliver(request, o)
    /\ UNCHANGED <<builder, setter_log, options, wire, wp_pc, decoded, error_log,
                   camera_vars, shot_vars>>

\* The outcome of the handle is awaited once more.
AwaitOutcome ==
    /\ request.pc = "listening"
    /\ Len(request.awaits) < MaxAwaits
    /\ request' = await_outcome(request)
    /\ request' # request
    /\ UNCHANGED <<builder, setter_log, options, wire, wp_pc, decoded, broker, error_log,
                   camera_vars, shot_vars>>

NextWallpaper ==
    \/ \E v \in BOOLEAN : BuilderShowPreview(v)
    \/ \E v \in SetOn : BuilderSetOn(v)
    \/ BuilderBuild
    \/ \E uri \in WallpaperUris : SetWallpaperUri(uri)
    \/ DecodeBody
    \/ NewRequestProxy
    \/ OnResponse
    \/ \E o \in Outcomes : BrokerRespond(o)
    \/ AwaitOutcome

-----------------------------------------------------------------------------
(* Specifications                                                          *)

Init ==
    /\ InitCamera
    /\ InitShot
    /\ InitWallpaper
    /\ error_log = {}

\* The camera page.
Next ==
    \/ ActivateCameraStart
    \/ ActivateCameraStop
    \/ \E t \in TaskIds : StartStreamBegin(t)
    \/ \E t \in TaskIds : \E r \in {"ok", "no", "err"} : StreamReply(t, r)

Spec == Init /\ [][Next]_vars

\* The screenshot page.
SpecScreenshot == Init /\ [][NextShot]_vars

\* The wallpaper client.
SpecWallpaper == Init /\ [][NextWallpaper]_vars

-----------------------------------------------------------------------------
(* Properties of the camera page                                           *)

\* The step that led to this state resolved stream() of future last.task.
Resolved(result) == last.op = "reply" /\ task[last.task].result = result

\* Future t is Starting or Streaming: it entered start_stream, stop_stream
\* has not run since, and it is unresolved or it delivered a stream.
SessionActive(t) ==
    /\ Entered(task[t])
    /\ ~task[t].stopped
    /\ task[t].pc # "done" \/ task[t].result = "Some"

\* stop_stream ran in the step that led to the primed state.
StopStreamRan ==
    \/ last'.op = "camera.stop" /\ last'.ran
    \/ last'.op = "reply" /\ task'[last'.task].result = "Err"

\* C1: when stop_stream ran while start_stream was suspended in stream(),
\* an fd stream() then returns is closed at once and never shown: the
\* paintable is not given it, the revealer stays hidden, the page stays Idle.
C1_StoppedStartDiscardsFd ==
    (Resolved("Some") /\ task[last.task].stopped) =>
        /\ page.pipewire_fd # FdOf(last.task)
        /\ FdOf(last.task) \notin open_fds
        /\ ~page.reveal_child
        /\ Idle(page)

\* C2: at most one stream() request chain is outstanding at any time.
C2_OneOutstandingChain ==
    Cardinality({t \in TaskIds : task[t].pc \in BrokerPcs}) <= 1

C4_UnavailableIsIdle ==
    Resolved("None") =>
        /\ Idle(page)
        /\ page.camera_available = "No"
        /\ <<"camera", last.task>> \notin error_log

\* The calls of stream(), in the order the code issues them.
ChainOrder == <<"session", "proxy", "is_camera_present", "access_camera",
                "open_pipe_wire_remote">>

\* C5: the calls of a stream() are issued in program order; a call is only
\* issued when every earlier one succeeded (camera present, access granted);
\* an fd exists or is held by the paintable only when all of them, ending
\* with open_pipe_wire_remote, succeeded.
C5_FdOnlyAfterWholeChain ==
    \A t \in TaskIds :
        LET c == task[t].calls
        IN  /\ \A i \in 1..Len(c) : c[i][1] = ChainOrder[i]
            /\ \A i \in 1..(Len(c) - 1) : c[i][2] = "ok"
            /\ task[t].pc \in ChainPcs =>
                  /\ \A i \in 1..Len(c) : c[i][2] = "ok"
                  /\ task[t].pc = ChainOrder[Len(c) + 1]
            /\ (page.pipewire_fd = FdOf(t) \/ FdOf(t) \in open_fds) =>
                  /\ Len(c) = Len(ChainOrder)
                  /\ \A i \in 1..Len(c) : c[i][2] = "ok"

C5_Witness ==
    /\ page.pipewire_fd # NoFd
    /\ \E t \in TaskIds : task[t].result = "Err" /\ Len(task[t].calls) = 4

\* C6: stop_stream run while the page is Idle changes none of camera.start,
\* camera.stop, the stream held, the open descriptors and the revealer.
C6_StopWhileIdleIsNoOp ==
    [][(StopStreamRan /\ Idle(page)) =>
          /\ page'.camera_start = page.camera_start
          /\ page'.camera_stop = page.camera_stop
          /\ page'.pipewire_fd = page.pipewire_fd
          /\ page'.reveal_child = page.reveal_child
          /\ open_fds' = open_fds]_vars

C6_Witness == Resolved("Err") /\ last.idle

\* C7: when stream() returns Err the page is Idle (camera.start enabled,
\* camera.stop disabled, revealer hidden, pipeline closed), the failure is
\* logged, and the failed start gave no stream to the paintable.
C7_FailureReturnsToIdle ==
    Resolved("Err") =>
        /\ Idle(page)
        /\ <<"camera", last.task>> \in error_log
        /\ FdOf(last.task) \notin open_fds

C7_Witness == Resolved("Err") /\ ~last.idle /\ task[last.task].calls[Len(task[last.task].calls)][1] = "access_camera"

-----------------------------------------------------------------------------
(* Properties of the screenshot page                                       *)

\* Future t resolved its take request in this step.
TakeResolves(t) == shot_task[t].pc = "take" /\ shot_task'[t].pc = "done"

\* C8: take is issued with the values the switches have when screenshot
\* reads them; when it resolves Ok(uri) the photo is that uri and the
\* revealer is shown and revealed; when it resolves otherwise the photo and
\* the revealer keep their state; nothing else changes them.
C8_PhotoExactlyOnOk ==
    [][/\ \A t \in ShotIds :
             (shot_task[t].pc = "from_native" /\ shot_task'[t].pc = "take") =>
                 /\ shot_task'[t].interactive = shot.interactive_switch
                 /\ shot_task'[t].modal = shot.modal_switch
       /\ \A t \in ShotIds :
             TakeResolves(t) =>
                 IF shot_task'[t].result = "Ok"
                 THEN /\ shot'.screenshot_photo = shot_task'[t].payload
                      /\ shot'.revealer_visible
                      /\ shot'.reveal_child
                 ELSE /\ shot'.screenshot_photo = shot.screenshot_photo
                      /\ shot'.revealer_visible = shot.revealer_visible
                      /\ shot'.reveal_child = shot.reveal_child
       /\ (\/ shot'.screenshot_photo # shot.screenshot_photo
           \/ shot'.revealer_visible # shot.revealer_visible
           \/ shot'.reveal_child # shot.reveal_child) =>
             \E t \in ShotIds : TakeResolves(t) /\ shot_task'[t].result = "Ok"]_vars

C8_Witness ==
    /\ shot.screenshot_photo = "file:///tmp/shot.png"
    /\ shot.reveal_child
    /\ \E t \in ShotIds :
          /\ shot_task[t].kind = "screenshot"
          /\ shot_task[t].pc = "done"
          /\ shot_task[t].result = "Cancelled"

\* C9: a pick_color or screenshot that completed either got a payload or
\* reported its failure.
C9_FailureIsReported ==
    \A t \in ShotIds :
        shot_task[t].pc = "done" =>
            \/ shot_task[t].result = "Ok"
            \/ <<shot_task[t].kind, t>> \in error_log

-----------------------------------------------------------------------------
(* Properties of the wallpaper options                                     *)

\* The canonical lowercase tag of a SetOn variant.
CanonicalTag(v) ==
    CASE v = Lockscreen -> "lockscreen"
      [] v = Background -> "background"
      [] v = Both       -> "both"

\* C10: the value written to the wire under "set-on" is the canonical
\* lowercase tag of the variant: "lockscreen", "background" or "both".
C10_SetOnIsLowercaseOnWire ==
    (wp_pc = "called" /\ options.set_on # None) =>
        wire.options["set-on"] = CanonicalTag(Unwrap(options.set_on))

\* The argument of the last call of a setter in a log of calls, if any.
LastOf(log, name) ==
    LET idx == {i \in 1..Len(log) : log[i][1] = name}
    IN  IF idx = {} THEN None
        ELSE Some(log[CHOOSE i \in idx : \A j \in idx : j <= i][2])

\* The variant a tag on the wire names, letter case aside.
TagVariant(s) ==
    CASE s \in {"lockscreen", "Lockscreen"} -> Lockscreen
      [] s \in {"background", "Background"} -> Background
      [] s \in {"both", "Both"}             -> Both

\* C11: after any sequence of setter calls and build(), the encoded options
\* hold exactly the keys whose setter was called, each with the argument of
\* the last call of that setter (for "set-on", the tag of that variant); a
\* key whose setter was never called is absent.
C11_EncodedKeysAreTheSetOnes ==
    wp_pc = "called" =>
        /\ DOMAIN wire.options =
              (IF LastOf(setter_log, "show_preview") # None THEN {"show-preview"} ELSE {})
              \cup (IF LastOf(setter_log, "set_on") # None THEN {"set-on"} ELSE {})
        /\ "show-preview" \in DOMAIN wire.options =>
              wire.options["show-preview"] = Unwrap(LastOf(setter_log, "show_preview"))
        /\ "set-on" \in DOMAIN wire.options =>
              TagVariant(wire.options["set-on"]) = Unwrap(LastOf(setter_log, "set_on"))

C11_Witness ==
    /\ wp_pc = "called"
    /\ setter_log = <<<<"set_on", Lockscreen>>, <<"set_on", Both>>, <<"set_on", Background>>>>
    /\ DOMAIN wire.options = {"set-on"}

\* C12: deserializing the serialized options gives options with the same
\* fields present and the same values, for every subset of fields and every
\* SetOn variant.
C12_DecodeOfEncodeIsIdentity ==
    decoded.done => (decoded.ok /\ decoded.value = options)

C12_Witness ==
    /\ decoded.done
    /\ decoded.value.set_on = Some(Both)
    /\ decoded.value.show_preview = None

\* C13: in the documented flow the outcome of the request is never lost:
\* whenever the portal has emitted it, the callback given to on_response
\* has received it, however emitting and registering interleave.
C13_OutcomeNeverLost ==
    (broker.emitted # "none" /\ request.pc = "listening") =>
        (request.fired = 1 /\ request.cached = broker.emitted)

C15_OneRequestPerAction ==
    \A k \in {"pick_color", "screenshot"} :
        Cardinality({t \in ShotIds : /\ shot_task[t].kind = k
                                     /\ shot_task[t].pc \in {"take", "pick_color"}}) <= 1

\* C16: stop_stream always ends in Idle: the stream held is closed, the
\* revealer hidden, camera.start enabled, camera.stop disabled; and running
\* stop_stream again right afterwards leaves the page and the open
\* descriptors as they are.
C16_StopIsIdempotent ==
    [][StopStreamRan =>
          /\ Idle(page')
          /\ page.pipewire_fd # NoFd => page.pipewire_fd \notin open_fds'
          /\ stop_stream(World(page', open_fds')).page = page'
          /\ stop_stream(World(page', open_fds')).open_fds = open_fds']_vars

C16_Witness ==
    /\ last.op = "camera.stop"
    /\ last.ran
    /\ \E t \in TaskIds : task[t].result = "Some" /\ task[t].stopped /\ FdOf(t) \notin open_fds

\* C17: resolving the window identifier never fails a pick_color or a
\* screenshot: no future ends in a panic, with or without a native root.
C17_IdentifierNeverFails ==
    /\ ~crashed
    /\ \A t \in ShotIds : shot_task[t].pc # "panicked"

\* C18: in every state between handlers exactly one of camera.start and
\* camera.stop is enabled.
C18_ExactlyOneActionEnabled == page.camera_start # page.camera_stop

C18_Witness ==
    /\ page.camera_stop
    /\ ~page.camera_start
    /\ \E t \in TaskIds : task[t].result = "None"

\* C19: whenever the paintable holds an open stream fd and the revealer is
\* shown, camera.stop is enabled.
C19_LiveStreamCanBeStopped ==
    (page.pipewire_fd # NoFd /\ page.pipewire_fd \in open_fds /\ page.reveal_child) =>
        page.camera_stop

\* C20: an fd is handed to the paintable only when the paintable holds none
\* (the one before was closed by close_pipeline), and then it is the only
\* open stream fd.
C20_OneOpenFd ==
    [][(page'.pipewire_fd # NoFd /\ page'.pipewire_fd # page.pipewire_fd) =>
          /\ page.pipewire_fd = NoFd
          /\ open_fds' = {page'.pipewire_fd}]_vars

====
